---- MODULE Spec2Model ----
(***************************************************************************)
(* The credit and deferred-billing ledger of                               *)
(* backend/app/services/billing_service.py (class BillingService).         *)
(*                                                                         *)
(* Representation.                                                         *)
(*  - Dates are day numbers; day 0 is the day the account is registered.   *)
(*    NoDate stands for None.                                              *)
(*  - A debit amount (a Decimal number of credits) is counted in           *)
(*    1/CreditUnit credits, so amount 1 is half a credit.  The account's   *)
(*    total_credits and used_credits are whole credits (int columns).      *)
(*  - Money (the float columns total_price, deferred_payment_balance,      *)
(*    total_amount, late_fee) is counted in 1/100000 of the currency unit, *)
(*    fine enough for every product the code forms to be exact:            *)
(*    0.01 per credit is 1000, half a credit costs 500, and 5% of a        *)
(*    multiple of 500 is a multiple of 25.  Binary floating point          *)
(*    rounding is not modelled.                                            *)
(*  - The database is the committed state: users, ledger, invoices.  A     *)
(*    session holds the row it loaded (its snapshot) until it commits;     *)
(*    commit writes the columns the handler changed, as absolute values.   *)
(***************************************************************************)
EXTENDS Integers, Sequences, FiniteSets, TLC

VARIABLES
    today,      \* the current date (date.today(), datetime.utcnow().date())
    users,      \* table users: user id -> row
    ledger,     \* table credit_transactions, in insertion order
    invoices,   \* table deferred_payments, in insertion order; id = index
    result,     \* what the operation performed by the last step returned
    sessions,   \* requests in flight: session -> position and loaded row
    audit       \* history of the run, per user (not program state)

vars == <<today, users, ledger, invoices, result, sessions, audit>>

db == <<users, ledger, invoices>>

----------------------------------------------------------------------------
(* Configuration: settings.py defaults, and the literals of the service.   *)

CreditUnit == 2
CREDIT_PRICE == 1000
TRIAL_CREDITS == 1000
TRIAL_DAYS == 30
DEFERRED_PAYMENT_GRACE_DAYS == 7
MIN_DEFERRED_AMOUNT == 1000000
LATE_FEE_PERCENTAGE == 5
LateFeeAfterDays == 7
ReminderEveryDays == 7
PaymentTolerance == 1000

(* Bounds of the model.                                                    *)
MaxDay == 45
MaxLedger == 3
MaxInvoices == 2

NoDate == -1

Users == {"u1"}
UserIds == Users \cup {"nobody"}
Sessions == {"s1", "s2"}

\* Debit amounts, in 1/CreditUnit credits: 0.5, 500 and 1000 credits.
Amounts == {1, 1000, 2000}
\* The amounts that are whole numbers of credits.
WholeAmounts == {a \in Amounts : a % CreditUnit = 0}
\* Credits granted by one purchase.
Grants == {1000}
\* The days on which the system is observed: registration, the last day of the
\* trial and the day after it, and the days 1, 7 and 8 days after the due date
\* (day 37) of an invoice generated on day 31.
Days == {d \in {0, 30, 31, 38, 44, 45, 46} : d <= MaxDay}

----------------------------------------------------------------------------
(* Pure helpers.                                                           *)

\* int(amount): truncation of a positive Decimal to whole credits.
IntCredits(a) == a \div CreditUnit

\* float(amount * Decimal(str(settings.CREDIT_PRICE)))
Price(a) == (a * CREDIT_PRICE) \div CreditUnit

Max(x, y) == IF x >= y THEN x ELSE y

RECURSIVE SumInts(_)
\* sum(...) over a sequence of integers
SumInts(s) == IF s = <<>> THEN 0 ELSE Head(s) + SumInts(Tail(s))

\* _is_trial_active
IsTrialActive(user, day) ==
    IF user.trial_end_date = NoDate THEN FALSE ELSE day <= user.trial_end_date

\* The row created at registration with the trial grant.
NewUser ==
    [total_credits |-> TRIAL_CREDITS,
     used_credits |-> 0,
     total_spent |-> 0,
     deferred_payment_balance |-> 0,
     trial_end_date |-> TRIAL_DAYS,
     subscription_tier |-> "trial",
     last_payment_date |-> NoDate,
     next_payment_due_date |-> NoDate,
     created_at |-> 0]

\* Session.commit(): the UPDATE holds the columns whose value differs from the
\* loaded one, as absolute values; the other columns keep what is committed.
WriteDirty(committed, loaded, new) ==
    [c \in DOMAIN committed |->
        IF new[c] # loaded[c] THEN new[c] ELSE committed[c]]

NoResult ==
    [op |-> "none", user |-> "nobody", success |-> FALSE, error |-> "",
     amount |-> 0, available |-> 0, required |-> 0, remaining_credits |-> 0,
     deferred_balance |-> 0, current_balance |-> 0, total_credits |-> 0,
     invoice |-> 0, paid |-> 0, method |-> "", reference |-> "",
     reminders |-> {}, again |-> FALSE,
     \* the period_start and period_end the caller of generate_invoice gave
     period |-> [start |-> NoDate, end |-> NoDate]]

Failure(op, u, err) ==
    [NoResult EXCEPT !.op = op, !.user = u, !.error = err]

IdleSession ==
    [pc |-> "idle", user |-> "nobody", amount |-> 0, began |-> 0, loaded |-> NewUser,
     invoice |-> 0, reference |-> "", rows |-> <<>>]

\* A rollback that is missing: the pending changes reach the table.
RolledBackNot(committed, pending) == pending

\* await self.db.rollback(): the session's pending changes are discarded and
\* the table keeps what is committed.
RolledBack(committed, pending) == committed

AllIdle == \A s \in Sessions : sessions[s].pc = "idle"

NoAudit ==
    [debited |-> 0,        \* sum of the amounts of the debits that returned success
     charged |-> 0,        \* money of the successful debits made in deferred mode
     spent_after_trial |-> 0,  \* amounts of the successful debits called after the trial
     budget |-> 0,         \* credits available when the trial ended, plus later grants
     override |-> FALSE]   \* some debit was admitted by the trial override

----------------------------------------------------------------------------
(* deduct_credits                                                          *)

\* The check with the trial override not capped by TRIAL_CREDITS.
InsufficientCreditsNoCap(user, a, day) ==
    /\ (user.total_credits - user.used_credits) * CreditUnit < a
    /\ ~IsTrialActive(user, day)

\* The check with the override granted after the trial as well.
InsufficientCreditsTrialOnly(user, a, day) ==
    /\ (user.total_credits - user.used_credits) * CreditUnit < a
    /\ ~(user.used_credits < TRIAL_CREDITS)

\* lines 108-120: the balance check; TRUE when the debit is refused
InsufficientCredits(user, a, day) ==
    LET available_credits == user.total_credits - user.used_credits
    IN  /\ available_credits * CreditUnit < a
        /\ ~(IsTrialActive(user, day) /\ user.used_credits < TRIAL_CREDITS)

\* Deferred mode beginning on trial_end_date itself.
DeferredModeFromEndDate(user, day) ==
    /\ user.trial_end_date = NoDate \/ day >= user.trial_end_date
    /\ user.subscription_tier = "trial"

\* lines 143: deferred payment mode
DeferredMode(user, day) ==
    ~IsTrialActive(user, day) /\ user.subscription_tier = "trial"

\* lines 123-136: the usage transaction
UsageEntry(u, a, day) ==
    [user_id |-> u, transaction_type |-> "usage", amount |-> -a,
     credits_used |-> IntCredits(a), credits_granted |-> 0,
     total_price |-> Price(a)]

\* The update with line 139 left out.
DebitedUserStaleUsed(user, a, day) ==
    [user EXCEPT
        !.total_spent = @ + Price(a),
        !.deferred_payment_balance =
            IF DeferredMode(user, day) THEN @ + Price(a) ELSE @]

\* lines 139-144: the row after the debit
DebitedUser(user, a, day) ==
    [user EXCEPT
        !.used_credits = @ + IntCredits(a),
        !.total_spent = @ + Price(a),
        !.deferred_payment_balance =
            IF DeferredMode(user, day) THEN @ + Price(a) ELSE @]

\* the history of a successful debit, called on day `began`
DebitAudit(h, user, a, began, day) ==
    [h EXCEPT
        !.debited = @ + a,
        !.charged = IF DeferredMode(user, day) THEN @ + Price(a) ELSE @,
        !.spent_after_trial = IF IsTrialActive(user, began) THEN @ ELSE @ + a,
        !.override = @ \/ (user.total_credits - user.used_credits) * CreditUnit < a]

\* The handler run on the row `loaded` (the session's snapshot of user u,
\* taken on day `began`).
\* The session is taken to keep the attributes of a loaded row readable after
\* the commit (the result is built from them at lines 151-157); app.database,
\* which configures the session, is not part of the source.
DeductCredits(u, loaded, began, a, fault) ==
    IF u \notin Users
    THEN /\ result' = Failure("debit", u, "User not found")
         /\ UNCHANGED <<users, ledger, audit>>
    ELSE IF InsufficientCredits(loaded, a, today)
    THEN /\ result' = [Failure("debit", u, "Insufficient credits") EXCEPT
                          !.amount = a,
                          !.available = loaded.total_credits - loaded.used_credits,
                          !.required = a]
         /\ UNCHANGED <<users, ledger, audit>>
    ELSE IF fault = "commit"
    THEN \* commit raises: lines 159-162
         /\ result' = Failure("debit", u, "exception")
         /\ users' = RolledBack(users, [users EXCEPT ![u] = DebitedUser(loaded, a, today)])
         /\ ledger' = RolledBack(ledger, Append(ledger, UsageEntry(u, a, today)))
         /\ UNCHANGED audit
    ELSE LET new == DebitedUser(loaded, a, today)
         IN  /\ Len(ledger) < MaxLedger
             /\ users' = [users EXCEPT ![u] = WriteDirty(@, loaded, new)]
             /\ ledger' = Append(ledger, UsageEntry(u, a, today))
             /\ audit' = [audit EXCEPT ![u] = DebitAudit(@, loaded, a, began, today)]
             /\ result' = [NoResult EXCEPT
                              !.op = "debit", !.user = u, !.success = TRUE,
                              !.amount = a,
                              !.remaining_credits = new.total_credits - new.used_credits,
                              !.deferred_balance = new.deferred_payment_balance]

\* One serialized call of deduct_credits.
Debit(u, a, fault) ==
    /\ DeductCredits(u, IF u \in Users THEN users[u] ELSE NewUser, today, a, fault)
    /\ UNCHANGED <<today, invoices, sessions>>

----------------------------------------------------------------------------
(* add_credits                                                             *)

\* lines 183-196: the purchase transaction
GrantEntry(u, credits, kind, day) ==
    [user_id |-> u, transaction_type |-> kind, amount |-> credits * CREDIT_PRICE,
     credits_used |-> 0, credits_granted |-> credits,
     total_price |-> credits * CREDIT_PRICE]

\* line 199
CreditedUser(user, credits) ==
    [user EXCEPT !.total_credits = @ + credits]

AddCredits(u, credits, kind, fault) ==
    /\ IF u \notin Users
       THEN /\ result' = Failure("credit", u, "User not found")
            /\ UNCHANGED <<users, ledger, audit>>
       ELSE IF fault = "commit"
       THEN /\ result' = Failure("credit", u, "exception")
            /\ users' = RolledBack(users, [users EXCEPT ![u] = CreditedUser(@, credits)])
            /\ ledger' = RolledBack(ledger, Append(ledger, GrantEntry(u, credits, kind, today)))
            /\ UNCHANGED audit
       ELSE LET new == CreditedUser(users[u], credits)
            IN  /\ Len(ledger) < MaxLedger
                /\ users' = [users EXCEPT ![u] = WriteDirty(@, users[u], new)]
                /\ ledger' = Append(ledger, GrantEntry(u, credits, kind, today))
                /\ audit' = [audit EXCEPT ![u].budget =
                                IF IsTrialActive(users[u], today) THEN @ ELSE @ + credits]
                /\ result' =
                     IF fault = "notify"
                     THEN \* send_credits_added_notification raises after the commit
                          Failure("credit", u, "exception")
                     ELSE [NoResult EXCEPT
                              !.op = "credit", !.user = u, !.success = TRUE,
                              !.amount = credits,
                              !.total_credits = new.total_credits]
    /\ UNCHANGED <<today, invoices, sessions>>

----------------------------------------------------------------------------
(* generate_deferred_invoice                                               *)

NoPeriod == [start |-> NoDate, end |-> NoDate]

\* _get_billing_period_start
GetBillingPeriodStart(user) ==
    IF user.last_payment_date # NoDate THEN user.last_payment_date
    ELSE IF user.trial_end_date # NoDate THEN user.trial_end_date + 1
    ELSE user.created_at

\* _calculate_billing_period: (start, yesterday)
CalculateBillingPeriod(user, day) ==
    [start |-> GetBillingPeriodStart(user), end |-> day - 1]

\* lines 283-284: the caller's period is used only when both ends are given
BillingPeriod(user, period, day) ==
    IF period.start = NoDate \/ period.end = NoDate
    THEN CalculateBillingPeriod(user, day)
    ELSE period

\* The check with <= for <.
BelowMinimumInclusive(total_amount) == total_amount <= MIN_DEFERRED_AMOUNT

\* line 293: the minimum amount check; TRUE when the invoice is refused
BelowMinimum(total_amount) == total_amount < MIN_DEFERRED_AMOUNT

\* _generate_invoice_number: the timestamp, of which the model keeps the day,
\* and `suffix`: the time of day with the first six digits of a uuid4.  Two
\* calls get the same suffix when they fall in the same second and draw the
\* same digits.
GenerateInvoiceNumber(day, suffix) == <<day, suffix>>

\* The due date without the days of grace.
PaymentDueDateNoGrace(period_end) == period_end

\* line 302
PaymentDueDate(period_end) == period_end + DEFERRED_PAYMENT_GRACE_DAYS

\* An invoice that bills only what exceeds the minimum amount.
NewInvoiceExcess(u, total_amount, period, number) ==
    [user_id |-> u,
     invoice_number |-> number,
     total_amount |-> total_amount - MIN_DEFERRED_AMOUNT,
     billing_period_start |-> period.start,
     billing_period_end |-> period.end,
     status |-> "pending",
     payment_due_date |-> period.end + DEFERRED_PAYMENT_GRACE_DAYS,
     is_overdue |-> FALSE,
     overdue_days |-> 0,
     late_fee |-> 0,
     payment_date |-> NoDate,
     payment_method |-> "",
     payment_reference |-> ""]

\* lines 304-316: the new deferred_payments row (the usage_summary snapshot,
\* which no later operation reads, is left out)
NewInvoice(u, total_amount, period, number) ==
    [user_id |-> u,
     invoice_number |-> number,
     total_amount |-> total_amount,
     billing_period_start |-> period.start,
     billing_period_end |-> period.end,
     status |-> "pending",
     payment_due_date |-> PaymentDueDate(period.end),
     is_overdue |-> FALSE,
     overdue_days |-> 0,
     late_fee |-> 0,
     payment_date |-> NoDate,
     payment_method |-> "",
     payment_reference |-> ""]

\* The update with line 319 left out.
BilledUserNoReset(user, due) ==
    [user EXCEPT !.next_payment_due_date = due]

\* lines 319-320
BilledUser(user, due) ==
    [user EXCEPT !.deferred_payment_balance = 0, !.next_payment_due_date = due]

\* The handler committing the reset of the balance on its own, before the
\* invoice: a failure of the second commit leaves the balance reset.
GenerateDeferredInvoiceTwoCommits(u, loaded, period, suffix, fault) ==
    IF u \notin Users
    THEN /\ result' = Failure("invoice", u, "User not found")
         /\ UNCHANGED <<users, invoices>>
    ELSE LET p == BillingPeriod(loaded, period, today)
             total_amount == loaded.deferred_payment_balance
             inv == NewInvoice(u, total_amount, p, GenerateInvoiceNumber(today, suffix))
             new == BilledUser(loaded, inv.payment_due_date)
         IN  IF BelowMinimum(total_amount)
             THEN /\ result' = [Failure("invoice", u, "Minimum amount not reached")
                                   EXCEPT !.current_balance = total_amount]
                  /\ UNCHANGED <<users, invoices>>
             ELSE /\ Len(invoices) < MaxInvoices
                  /\ users' = [users EXCEPT ![u] = WriteDirty(@, loaded, new)]
                  /\ invoices' = IF fault = "commit" THEN invoices
                                 ELSE Append(invoices, inv)
                  /\ result' =
                       IF fault # "none"
                       THEN Failure("invoice", u, "exception")
                       ELSE [NoResult EXCEPT
                                !.op = "invoice", !.user = u, !.success = TRUE,
                                !.amount = total_amount,
                                !.invoice = Len(invoices) + 1,
                                !.period = period]

\* The handler run on the row `loaded` (the session's snapshot of user u).
GenerateDeferredInvoice(u, loaded, period, suffix, fault) ==
    IF u \notin Users
    THEN /\ result' = Failure("invoice", u, "User not found")
         /\ UNCHANGED <<users, invoices>>
    ELSE LET p == BillingPeriod(loaded, period, today)
             total_amount == loaded.deferred_payment_balance
         IN  IF BelowMinimum(total_amount)
             THEN /\ result' = [Failure("invoice", u, "Minimum amount not reached")
                                   EXCEPT !.current_balance = total_amount]
                  /\ UNCHANGED <<users, invoices>>
             ELSE IF fault = "commit"
             THEN /\ result' = Failure("invoice", u, "exception")
                  /\ users' = RolledBack(users, [users EXCEPT ![u] =
                                    BilledUser(loaded, PaymentDueDate(p.end))])
                  /\ invoices' = RolledBack(invoices, Append(invoices,
                                    NewInvoice(u, total_amount, p,
                                               GenerateInvoiceNumber(today, suffix))))
             ELSE LET inv == NewInvoice(u, total_amount, p,
                                        GenerateInvoiceNumber(today, suffix))
                      new == BilledUser(loaded, inv.payment_due_date)
                  IN  /\ Len(invoices) < MaxInvoices
                      /\ users' = [users EXCEPT ![u] = WriteDirty(@, loaded, new)]
                      /\ invoices' = Append(invoices, inv)
                      /\ result' =
                           IF fault = "notify"
                           THEN \* send_invoice_email raises after the commit
                                Failure("invoice", u, "exception")
                           ELSE [NoResult EXCEPT
                                    !.op = "invoice", !.user = u, !.success = TRUE,
                                    !.amount = total_amount,
                                    !.invoice = Len(invoices) + 1,
                                    !.period = period]

\* One serialized call of generate_deferred_invoice.
GenerateInvoice(u, period, suffix, fault) ==
    /\ GenerateDeferredInvoice(u, IF u \in Users THEN users[u] ELSE NewUser,
                               period, suffix, fault)
    /\ UNCHANGED <<today, ledger, sessions, audit>>

----------------------------------------------------------------------------
(* check_overdue_invoices                                                  *)

\* The selection of every unpaid invoice past its due date.
SelectedForSweepUnpaid(day) ==
    {i \in 1..Len(invoices) :
        invoices[i].status # "paid" /\ invoices[i].payment_due_date < day}

\* The selection without the status condition.
SelectedForSweepAnyStatus(day) ==
    {i \in 1..Len(invoices) : invoices[i].payment_due_date < day}

\* The select taking the invoices due on the day itself as well.
SelectedForSweepDueToday(day) ==
    {i \in 1..Len(invoices) :
        invoices[i].status = "pending" /\ invoices[i].payment_due_date <= day}

\* lines 483-488: pending invoices past their due date
SelectedForSweep(day) ==
    {i \in 1..Len(invoices) :
        invoices[i].status = "pending" /\ invoices[i].payment_due_date < day}

\* line 502
LateFee(total_amount) == (total_amount * LATE_FEE_PERCENTAGE) \div 100

\* The loop body without line 498: the invoice stays pending.
SweptInvoiceStaysPending(inv, day) ==
    LET overdue_days == day - inv.payment_due_date
        late == overdue_days > LateFeeAfterDays
    IN  [inv EXCEPT
            !.overdue_days = overdue_days,
            !.is_overdue = TRUE,
            !.late_fee = IF late THEN LateFee(inv.total_amount) ELSE @,
            !.total_amount = IF late THEN @ + LateFee(inv.total_amount) ELSE @]

\* The loop body with the late fee applied from the first overdue day.
SweptInvoiceFeeAtOnce(inv, day) ==
    LET overdue_days == day - inv.payment_due_date
        late == overdue_days > 0
    IN  [inv EXCEPT
            !.overdue_days = overdue_days,
            !.is_overdue = TRUE,
            !.status = "overdue",
            !.late_fee = IF late THEN LateFee(inv.total_amount) ELSE @,
            !.total_amount = IF late THEN @ + LateFee(inv.total_amount) ELSE @]

\* lines 495-504: one selected invoice after the loop body
SweptInvoice(inv, day) ==
    LET overdue_days == day - inv.payment_due_date
        late == overdue_days > LateFeeAfterDays
    IN  [inv EXCEPT
            !.overdue_days = overdue_days,
            !.is_overdue = TRUE,
            !.status = "overdue",
            !.late_fee = IF late THEN LateFee(inv.total_amount) ELSE @,
            !.total_amount = IF late THEN @ + LateFee(inv.total_amount) ELSE @]

\* lines 483-504: the table `rows` after a committed run of the sweeper on
\* day `day`
SweptRows(rows, day) ==
    [i \in 1..Len(rows) |->
        IF rows[i].status = "pending" /\ rows[i].payment_due_date < day
        THEN SweptInvoice(rows[i], day)
        ELSE rows[i]]

\* the table after committed runs of the sweeper on every day from..to
RECURSIVE SweptDaily(_, _, _)
SweptDaily(rows, from, to) ==
    IF from > to THEN rows ELSE SweptDaily(SweptRows(rows, from), from + 1, to)

\* lines 483-509: the invoices of the table `rows` for which a run of the
\* sweeper on day `day` sends a reminder
RemindersOf(rows, day) ==
    {i \in 1..Len(rows) :
        /\ rows[i].status = "pending" /\ rows[i].payment_due_date < day
        /\ (day - rows[i].payment_due_date) % ReminderEveryDays = 0
        /\ rows[i].user_id \in Users}

\* lines 507-509: the selected invoices whose reminder is due
ReminderDue(i, day) ==
    /\ (day - invoices[i].payment_due_date) % ReminderEveryDays = 0
    /\ invoices[i].user_id \in Users

\* The sweeper run on the rows `loaded` that its select returned on day `day`
\* (`selected`: their ids).  fault "notify": the reminder of invoice `failing`
\* raises, which ends the loop before the commit; fault "commit": the commit
\* raises.  Either way nothing of the run is persisted.
CheckOverdueInvoices(loaded, selected, day, fault, failing) ==
    LET due == {i \in selected : ReminderDue(i, day)}
    IN  /\ fault = "notify" => failing \in due
        /\ fault # "notify" => failing = 0
        /\ invoices' =
              IF fault = "none"
              THEN [i \in 1..Len(invoices) |->
                      IF i \in selected
                      THEN WriteDirty(invoices[i], loaded[i], SweptInvoice(loaded[i], day))
                      ELSE invoices[i]]
              ELSE invoices
        /\ result' = [NoResult EXCEPT
                         !.op = "sweep", !.success = (fault = "none"),
                         \* the invoice whose reminder raised
                         !.invoice = failing,
                         \* the run follows a committed run directly
                         !.again = (result.op = "sweep" /\ result.success),
                         !.reminders = IF fault = "notify"
                                       THEN {i \in due : i < failing}
                                       ELSE due]

\* One serialized run of the sweeper.
Sweep(fault, failing) ==
    /\ CheckOverdueInvoices(invoices, SelectedForSweep(today), today, fault, failing)
    /\ UNCHANGED <<today, users, ledger, sessions, audit>>

----------------------------------------------------------------------------
(* process_payment                                                         *)

Abs(x) == IF x < 0 THEN -x ELSE x

\* Both amounts of line 420 are Python floats (IEEE-754 doubles).  An amount
\* of n money units is held as the double nearest to n / MoneyScale; the
\* operators below give that double's error without leaving 32-bit integers.
MoneyScale == 100000

\* floor(log2(q)) for q >= 1
RECURSIVE Log2Floor(_)
Log2Floor(q) == IF q < 2 THEN 0 ELSE 1 + Log2Floor(q \div 2)

\* the least k with n * 2^k >= MoneyScale, for 0 < n < MoneyScale
RECURSIVE Log2Below(_)
Log2Below(n) == IF n >= MoneyScale THEN 0 ELSE 1 + Log2Below(2 * n)

\* the binary exponent e of n / MoneyScale: 2^e <= n / MoneyScale < 2^(e+1)
FloatExponent(n) ==
    IF n >= MoneyScale THEN Log2Floor(n \div MoneyScale) ELSE -Log2Below(n)

\* (r * 2^k) % MoneyScale for 0 <= r < MoneyScale, 14 bits at a time while
\* the product stays below 2^31
RECURSIVE DoubleMod(_, _)
DoubleMod(r, k) ==
    IF k = 0 THEN r
    ELSE IF k >= 14 THEN DoubleMod((16384 * r) % MoneyScale, k - 14)
    ELSE DoubleMod((2 * r) % MoneyScale, k - 1)

RECURSIVE Pow2(_)
Pow2(k) == IF k = 0 THEN 1 ELSE 2 * Pow2(k - 1)

\* float(n / MoneyScale) - n / MoneyScale, in units of 1 / (MoneyScale * 2^59),
\* for n >= PaymentTolerance: the 53-bit significand is n * 2^(52-e) / MoneyScale
\* rounded to the nearest integer.
FloatError(n) ==
    LET e == FloatExponent(n)
        r == DoubleMod(n % MoneyScale, 52 - e)
        centred == IF r > MoneyScale \div 2 THEN r - MoneyScale ELSE r
    IN  -(centred * Pow2(7 + e))

\* line 420: TRUE when the payment is refused.  A decimal difference other
\* than 0.01 is far from the threshold; at exactly 0.01 the float subtraction
\* is exact (the amounts are within a factor 2 of each other) and the outcome
\* is decided by the representation errors of the two amounts and of 0.01.
AmountMismatch(converted_amount, total_amount) ==
    LET d == Abs(converted_amount - total_amount)
        hi == Max(converted_amount, total_amount)
        lo == Max(PaymentTolerance,
                  IF converted_amount < total_amount THEN converted_amount
                  ELSE total_amount)
    IN  IF d # PaymentTolerance
        THEN d > PaymentTolerance
        ELSE FloatError(hi) - FloatError(lo) > FloatError(PaymentTolerance)

\* lines 427-431
PaidInvoice(inv, method, reference, day) ==
    [inv EXCEPT
        !.status = "paid",
        !.payment_date = day,
        !.payment_method = method,
        !.payment_reference = reference]

\* A payment transaction recording the principal without the late fee.
PaymentEntryPrincipal(inv) ==
    [user_id |-> inv.user_id, transaction_type |-> "payment",
     amount |-> inv.total_amount - inv.late_fee, credits_used |-> 0,
     credits_granted |-> 0, total_price |-> 0]

\* lines 434-443: the payment transaction
PaymentEntry(inv) ==
    [user_id |-> inv.user_id, transaction_type |-> "payment",
     amount |-> inv.total_amount, credits_used |-> 0, credits_granted |-> 0,
     total_price |-> 0]

\* what db.get returns for an id that has no row
NoInvoice == NewInvoice("nobody", 0, NoPeriod, <<NoDate, 0>>)

\* process_payment run on the row `loaded` that db.get returned for id (the
\* row itself in a serialized call); converted_amount is the amount in the
\* invoice's currency (what convert_currency returned, if it was needed).
ProcessPaymentOn(id, loaded, method, reference, converted_amount, fault) ==
    IF id \notin 1..Len(invoices)
    THEN /\ result' = Failure("payment", "nobody", "Invoice not found")
         /\ UNCHANGED <<invoices, ledger>>
    ELSE LET inv == loaded
             paid == [invoices EXCEPT ![id] =
                        WriteDirty(@, inv, PaidInvoice(inv, method, reference, today))]
         IN  IF AmountMismatch(converted_amount, inv.total_amount)
             THEN /\ result' = [Failure("payment", inv.user_id, "Amount mismatch")
                                   EXCEPT !.amount = converted_amount,
                                          !.paid = converted_amount,
                                          !.required = inv.total_amount]
                  /\ UNCHANGED <<invoices, ledger>>
             ELSE IF fault = "commit"
             THEN /\ result' = Failure("payment", inv.user_id, "exception")
                  /\ invoices' = RolledBack(invoices, paid)
                  /\ ledger' = RolledBack(ledger, Append(ledger, PaymentEntry(inv)))
             ELSE /\ Len(ledger) < MaxLedger
                  /\ invoices' = paid
                  /\ ledger' = Append(ledger, PaymentEntry(inv))
                  /\ result' =
                       IF fault = "notify" /\ inv.user_id \in Users
                       THEN \* send_payment_confirmation raises after the commit
                            Failure("payment", inv.user_id, "exception")
                       ELSE [NoResult EXCEPT
                                !.op = "payment", !.user = inv.user_id,
                                !.success = TRUE, !.invoice = id,
                                !.paid = converted_amount,
                                !.method = method, !.reference = reference,
                                !.amount = inv.total_amount]

\* One serialized call of process_payment.
ProcessPayment(id, method, reference, converted_amount, fault) ==
    /\ ProcessPaymentOn(id, IF id \in 1..Len(invoices) THEN invoices[id] ELSE NoInvoice,
                        method, reference, converted_amount, fault)
    /\ UNCHANGED <<today, users, sessions, audit>>

----------------------------------------------------------------------------
(* Concurrent requests.  Each request has its own session: it loads the    *)
(* user row (await db.get), and later, in one uninterrupted stretch, runs  *)
(* the check and the updates on the loaded row and commits.                *)

BeginDebit(s, u, a) ==
    /\ sessions[s].pc = "idle"
    /\ sessions' = [sessions EXCEPT ![s] =
                        [IdleSession EXCEPT !.pc = "debit", !.user = u, !.amount = a,
                                            !.began = today, !.loaded = users[u]]]
    /\ result' = NoResult
    /\ UNCHANGED <<today, users, ledger, invoices, audit>>

FinishDebit(s, fault) ==
    /\ sessions[s].pc = "debit"
    /\ DeductCredits(sessions[s].user, sessions[s].loaded, sessions[s].began,
                     sessions[s].amount, fault)
    /\ sessions' = [sessions EXCEPT ![s] = IdleSession]
    /\ UNCHANGED <<today, invoices>>

BeginInvoice(s, u) ==
    /\ sessions[s].pc = "idle"
    /\ sessions' = [sessions EXCEPT ![s] =
                        [IdleSession EXCEPT !.pc = "invoice", !.user = u,
                                            !.began = today, !.loaded = users[u]]]
    /\ result' = NoResult
    /\ UNCHANGED <<today, users, ledger, invoices, audit>>

\* A debit request that starts while no other debit is in flight.
BeginDebitAlone(s, u, a) ==
    /\ \A t \in Sessions : sessions[t].pc # "debit"
    /\ BeginDebit(s, u, a)

FinishInvoice(s, suffix, fault) ==
    /\ sessions[s].pc = "invoice"
    /\ GenerateDeferredInvoice(sessions[s].user, sessions[s].loaded, NoPeriod, suffix, fault)
    /\ sessions' = [sessions EXCEPT ![s] = IdleSession]
    /\ UNCHANGED <<today, ledger, audit>>

\* The sweeper's select (lines 483-491) on day today; its loop and commit
\* follow in FinishSweep.
BeginSweep(s) ==
    /\ sessions[s].pc = "idle"
    /\ sessions' = [sessions EXCEPT ![s] =
                        [IdleSession EXCEPT !.pc = "sweep", !.began = today,
                                            !.rows = invoices]]
    /\ result' = NoResult
    /\ UNCHANGED <<today, users, ledger, invoices, audit>>

FinishSweep(s, fault, failing) ==
    LET loaded == sessions[s].rows
        selected == {i \in 1..Len(loaded) :
                        /\ loaded[i].status = "pending"
                        /\ loaded[i].payment_due_date < sessions[s].began}
    IN  /\ sessions[s].pc = "sweep"
        /\ CheckOverdueInvoices(loaded, selected, sessions[s].began, fault, failing)
        /\ sessions' = [sessions EXCEPT ![s] = IdleSession]
        /\ UNCHANGED <<today, users, ledger, audit>>

\* process_payment's db.get (line 405) of an invoice that is not yet paid;
\* its check, updates and commit follow in FinishPay.
BeginPay(s, id, reference, converted_amount) ==
    /\ sessions[s].pc = "idle"
    /\ id \in 1..Len(invoices)
    /\ invoices[id].status # "paid"
    /\ sessions' = [sessions EXCEPT ![s] =
                        [IdleSession EXCEPT !.pc = "pay", !.invoice = id,
                                            !.reference = reference,
                                            !.amount = converted_amount,
                                            !.rows = <<invoices[id]>>]]
    /\ result' = NoResult
    /\ UNCHANGED <<today, users, ledger, invoices, audit>>

FinishPay(s, method, fault) ==
    /\ sessions[s].pc = "pay"
    /\ ProcessPaymentOn(sessions[s].invoice, sessions[s].rows[1], method,
                        sessions[s].reference, sessions[s].amount, fault)
    /\ sessions' = [sessions EXCEPT ![s] = IdleSession]
    /\ UNCHANGED <<today, users, audit>>

----------------------------------------------------------------------------
(* calculate_service_cost                                                  *)

\* Optional arguments: None, or the value given
None == <<>>
Some(x) == <<x>>

\* decimal.Decimal under the default context: a sign, the digits of the
\* coefficient (most significant first, none for zero) and an exponent; a
\* result of more than DecimalPrecision digits is rounded half-even.
DecimalPrecision == 28
DecZero == [sign |-> 1, digits |-> <<>>, exp |-> 0]

\* the digits of a natural number
RECURSIVE DigitsOf(_)
DigitsOf(n) == IF n = 0 THEN <<>> ELSE Append(DigitsOf(n \div 10), n % 10)

Front(ds) == SubSeq(ds, 1, Len(ds) - 1)

\* the coefficient plus one
RECURSIVE Incremented(_)
Incremented(ds) ==
    IF ds = <<>> THEN <<1>>
    ELSE IF ds[Len(ds)] = 9 THEN Append(Incremented(Front(ds)), 0)
    ELSE Append(Front(ds), ds[Len(ds)] + 1)

\* the value of a Decimal, whatever its trailing zeros: what == compares
RECURSIVE Normal(_)
Normal(d) ==
    IF d.digits = <<>> THEN DecZero
    ELSE IF d.digits[Len(d.digits)] = 0
    THEN Normal([d EXCEPT !.digits = Front(@), !.exp = @ + 1])
    ELSE d

\* Decimal(str(n)) of an int
DecOfInt(n) == Normal([sign |-> IF n < 0 THEN -1 ELSE 1, digits |-> DigitsOf(Abs(n)), exp |-> 0])

\* long division rem / m continued after the digits ds, to the precision
RECURSIVE LongDivision(_, _, _, _)
LongDivision(ds, rem, m, exp) ==
    IF rem = 0 THEN [digits |-> ds, exp |-> exp]
    ELSE IF Len(ds) = DecimalPrecision
    THEN [digits |-> IF 2 * rem > m \/ (2 * rem = m /\ ds[Len(ds)] % 2 = 1)
                     THEN Incremented(ds) ELSE ds,
          exp |-> exp]
    ELSE LET digit == (rem * 10) \div m
         IN  LongDivision(IF ds = <<>> /\ digit = 0 THEN <<>> ELSE Append(ds, digit),
                          (rem * 10) % m, m, exp - 1)

\* Decimal(str(n)) / Decimal(str(m)) for ints n and m > 0
DecDivide(n, m) ==
    LET q == LongDivision(DigitsOf(Abs(n) \div m), Abs(n) % m, m, 0)
    IN  Normal([sign |-> IF n < 0 THEN -1 ELSE 1, digits |-> q.digits, exp |-> q.exp])

\* the digits of coefficient * k + carry, for a natural k
RECURSIVE TimesDigits(_, _, _)
TimesDigits(ds, k, carry) ==
    IF ds = <<>> THEN DigitsOf(carry)
    ELSE LET p == ds[Len(ds)] * k + carry
         IN  Append(TimesDigits(Front(ds), k, p \div 10), p % 10)

\* a coefficient of any length rounded half-even to the precision
Rounded(ds, exp) ==
    IF Len(ds) <= DecimalPrecision THEN [digits |-> ds, exp |-> exp]
    ELSE LET kept == SubSeq(ds, 1, DecimalPrecision)
             dropped == SubSeq(ds, DecimalPrecision + 1, Len(ds))
             up == \/ dropped[1] > 5
                   \/ /\ dropped[1] = 5
                      /\ \/ \E j \in 2..Len(dropped) : dropped[j] # 0
                         \/ kept[DecimalPrecision] % 2 = 1
         IN  [digits |-> IF up THEN Incremented(kept) ELSE kept,
              exp |-> exp + Len(dropped)]

\* d * Decimal(str(k)) for an int k
DecTimes(d, k) ==
    IF k = 0 \/ d.digits = <<>> THEN DecZero
    ELSE LET r == Rounded(TimesDigits(d.digits, Abs(k), 0), d.exp)
         IN  Normal([sign |-> IF k < 0 THEN -d.sign ELSE d.sign,
                     digits |-> r.digits, exp |-> r.exp])

\* settings.py lines 90-92 and lines 49, 53 of the pricing table
VOICE_MINUTE_COST == 10
CHAT_MESSAGE_COST == 1
FACE_PROCESSING_COST == 5
StorageGbMonthCost == 100
TaskExecutionCost == 5
SecondsPerMinute == 60

\* lines 33-57: the rates of the pricing table that calculate_service_cost reads
Pricing ==
    [voice_processing |-> [per_minute |-> VOICE_MINUTE_COST],
     chat_processing |-> [per_message |-> CHAT_MESSAGE_COST],
     face_processing |-> [per_image |-> FACE_PROCESSING_COST],
     storage |-> [per_gb_per_month |-> StorageGbMonthCost],
     tasks |-> [per_task_execution |-> TaskExecutionCost]]

\* dict.get(key, default)
Get(dict, key, default) == IF key \in DOMAIN dict THEN dict[key] ELSE default

\* The calculator billing voice by the whole minutes of the duration.
CalculateServiceCostWholeMinutes(service_type, quantity, duration, custom_rate) ==
    IF custom_rate # None
    THEN DecTimes(custom_rate[1], quantity)
    ELSE IF service_type = "voice_processing" /\ duration # None /\ duration # Some(0)
    THEN DecTimes(DecOfInt((duration[1] \div SecondsPerMinute) * VOICE_MINUTE_COST),
                  quantity)
    ELSE IF service_type \in {"chat_processing", "face_processing", "storage", "tasks"}
    THEN DecTimes(DecOfInt(Pricing[service_type][CHOOSE k \in DOMAIN Pricing[service_type] : TRUE]),
                  quantity)
    ELSE DecZero

\* lines 236-264: the cost in credits.  quantity is an int, duration None or
\* an int of seconds, custom_rate None or a Decimal.
CalculateServiceCost(service_type, quantity, duration, custom_rate) ==
    LET pricing == Get(Pricing, service_type, <<>>)
    IN  IF custom_rate # None
        THEN DecTimes(custom_rate[1], quantity)
        ELSE IF service_type = "voice_processing" /\ duration # None /\ duration # Some(0)
        THEN DecTimes(DecTimes(DecDivide(duration[1], SecondsPerMinute),
                               Get(pricing, "per_minute", 10)),
                      quantity)
        ELSE IF service_type = "chat_processing"
        THEN DecTimes(DecOfInt(Get(pricing, "per_message", 1)), quantity)
        ELSE IF service_type = "face_processing"
        THEN DecTimes(DecOfInt(Get(pricing, "per_image", 5)), quantity)
        ELSE IF service_type = "storage"
        THEN DecTimes(DecOfInt(Get(pricing, "per_gb_per_month", 100)), quantity)
        ELSE IF service_type = "tasks"
        THEN DecTimes(DecOfInt(Get(pricing, "per_task_execution", 5)), quantity)
        ELSE DecZero

\* what a caller of the calculator supplies, and what it gets
CostRequest(service_type, quantity, duration, custom_rate) ==
    [op |-> "request", service_type |-> service_type, quantity |-> quantity,
     duration |-> duration, custom_rate |-> custom_rate, cost |-> DecZero]

\* billing_service.py lines 228-268, called directly with the request
CalculateCost ==
    /\ result.op = "request"
    /\ result' = [result EXCEPT
                     !.op = "cost",
                     !.cost = CalculateServiceCost(result.service_type, result.quantity,
                                                   result.duration, result.custom_rate)]
    /\ UNCHANGED <<today, users, ledger, invoices, sessions, audit>>

\* billing.py lines 333-353: POST /calculate-cost hands custom_rate on only
\* when it is truthy.  cost is the Decimal the service returns, which the
\* endpoint reports as credits_required.
CalculateCostEndpoint ==
    /\ result.op = "request"
    /\ result' = [result EXCEPT
                     !.op = "quote",
                     !.cost = CalculateServiceCost(
                                 result.service_type, result.quantity, result.duration,
                                 IF result.custom_rate # None
                                    /\ result.custom_rate # Some(DecZero)
                                 THEN result.custom_rate ELSE None)]
    /\ UNCHANGED <<today, users, ledger, invoices, sessions, audit>>

----------------------------------------------------------------------------
(* The clock.                                                              *)

Tick(d) ==
    /\ d > today
    /\ today' = d
    /\ audit' = [u \in Users |->
                    IF IsTrialActive(users[u], today) /\ ~IsTrialActive(users[u], d)
                    THEN [audit[u] EXCEPT !.budget =
                            Max(0, users[u].total_credits - users[u].used_credits)]
                    ELSE audit[u]]
    /\ result' = NoResult
    /\ UNCHANGED <<users, ledger, invoices, sessions>>

----------------------------------------------------------------------------
(* Inputs.                                                                 *)

Faults == {"none", "commit", "notify"}
CommitFaults == {"none", "commit"}
Suffixes == {0}
Periods == {NoPeriod}
PaymentMethods == {"card"}
PaymentReferences == {"r1", "r2"}
\* what a payment offers, relative to the invoice's total_amount: an excess of
\* exactly the tolerance, and the smallest decimal excess above it
PaymentDeltas == {PaymentTolerance, PaymentTolerance + 1}
\* the calls tried on an account: every call on an existing one, and one call
\* on an id that has no row
Calls(inputs, faults) ==
    {x \in UserIds \X inputs \X faults :
        x[1] \notin Users =>
            (x[2] = CHOOSE i \in inputs : TRUE) /\ (x[3] = "none")}

\* the payments tried: every reference and amount without a fault, and one
\* accepted payment under each fault
PaymentInputs ==
    {x \in PaymentMethods \X PaymentReferences \X PaymentDeltas \X Faults :
        x[4] # "none" => (x[2] = "r1" /\ x[3] = PaymentTolerance)}
\* the days of the concurrent runs: the trial and the day after it
ConcDays == {d \in Days : d <= TRIAL_DAYS + 1}

Init ==
    /\ today = 0
    /\ users = [u \in Users |-> NewUser]
    /\ ledger = <<>>
    /\ invoices = <<>>
    /\ result = NoResult
    /\ sessions = [s \in Sessions |-> IdleSession]
    /\ audit = [u \in Users |-> NoAudit]

Pay(id, method, reference, delta, fault) ==
    ProcessPayment(id, method, reference,
                   (IF id \in 1..Len(invoices) THEN invoices[id].total_amount ELSE 0) + delta,
                   fault)

\* Serialized operations: every call runs from its load to its commit alone.
Next ==
    \/ \E d \in Days : Tick(d)
    \/ \E x \in Calls(Amounts, CommitFaults) : Debit(x[1], x[2], x[3])
    \/ \E x \in Calls(Grants, Faults) : AddCredits(x[1], x[2], "purchase", x[3])
    \/ \E x \in Calls(Periods \X Suffixes, Faults) :
            GenerateInvoice(x[1], x[2][1], x[2][2], x[3])
    \/ Sweep("none", 0)
    \/ \E id \in 1..Len(invoices), m \in PaymentMethods :
            Pay(id, m, "r1", PaymentTolerance, "none")

Spec == Init /\ [][Next]_vars

\* Serialized operations on invoices: every sweep and payment input and
\* fault, on invoices made by debits of 1000 credits and credit purchases.
NextBilling ==
    \/ \E d \in Days : Tick(d)
    \/ \E u \in Users : Debit(u, 2000, "none")
    \/ \E u \in Users, c \in Grants : AddCredits(u, c, "purchase", "none")
    \/ \E u \in Users : GenerateInvoice(u, NoPeriod, 0, "none")
    \/ \E f \in Faults, i \in 0..MaxInvoices : Sweep(f, i)
    \/ \E id \in 1..(Len(invoices) + 1), x \in PaymentInputs :
            Pay(id, x[1], x[2], x[3], x[4])

SpecBilling == Init /\ [][NextBilling]_vars

\* Concurrent debit requests on whole-credit amounts.
NextConc ==
    \/ \E d \in ConcDays : Tick(d)
    \/ \E u \in Users, c \in Grants : AddCredits(u, c, "purchase", "none")
    \/ \E s \in Sessions, u \in Users, a \in WholeAmounts : BeginDebit(s, u, a)
    \/ \E s \in Sessions, f \in CommitFaults : FinishDebit(s, f)

SpecConc == Init /\ [][NextConc]_vars

\* Concurrent generate_invoice requests, with at most one debit request in
\* flight at a time, so that no two debits race each other.
NextConcInvoice ==
    \/ \E d \in ConcDays : Tick(d)
    \/ \E u \in Users, c \in Grants : AddCredits(u, c, "purchase", "none")
    \/ \E s \in Sessions, u \in Users, a \in WholeAmounts : BeginDebitAlone(s, u, a)
    \/ \E s \in Sessions, f \in CommitFaults : FinishDebit(s, f)
    \/ \E s \in Sessions, u \in Users : BeginInvoice(s, u)
    \/ \E s \in Sessions, x \in Suffixes, f \in CommitFaults : FinishInvoice(s, x, f)

SpecConcInvoice == Init /\ [][NextConcInvoice]_vars

\* Concurrent sweeps and payments of unpaid invoices, on invoices made by
\* serialized debits and generate_invoice calls.
NextConcPayment ==
    \/ \E d \in Days : Tick(d)
    \/ \E u \in Users : Debit(u, 2000, "none")
    \/ \E u \in Users : GenerateInvoice(u, NoPeriod, 0, "none")
    \/ \E s \in Sessions : BeginSweep(s)
    \/ \E s \in Sessions : FinishSweep(s, "none", 0)
    \/ \E s \in Sessions, id \in 1..Len(invoices), r \in PaymentReferences :
            BeginPay(s, id, r, invoices[id].total_amount + PaymentTolerance)
    \/ \E s \in Sessions, m \in PaymentMethods : FinishPay(s, m, "none")

SpecConcPayment == Init /\ [][NextConcPayment]_vars

\* The cost calculator on every request of the bounded sets below.
ServiceTypes ==
    {"voice_processing", "chat_processing", "face_processing", "storage", "tasks",
     "translation"}
Quantities == {0, 1, 2, 3}
Durations == {None, Some(0), Some(30), Some(90), Some(100)}
CustomRates == {None, Some(DecZero), Some(DecDivide(1, 2)), Some(DecOfInt(2))}

InitCost ==
    /\ today = 0
    /\ users = [u \in Users |-> NewUser]
    /\ ledger = <<>>
    /\ invoices = <<>>
    /\ result \in {CostRequest(x[1], x[2], x[3], x[4]) :
                      x \in ServiceTypes \X Quantities \X Durations \X CustomRates}
    /\ sessions = [s \in Sessions |-> IdleSession]
    /\ audit = [u \in Users |-> NoAudit]

NextCost ==
    \/ CalculateCost
    \/ CalculateCostEndpoint

SpecCost == InitCost /\ [][NextCost]_vars

\* Invoice generation with the random part of the invoice number drawn anew
\* by every call.
RandomParts == {0, 1}

NextNumbers ==
    \/ \E d \in Days : Tick(d)
    \/ \E u \in Users : Debit(u, 2000, "none")
    \/ \E u \in Users, c \in Grants : AddCredits(u, c, "purchase", "none")
    \/ \E u \in Users, x \in RandomParts : GenerateInvoice(u, NoPeriod, x, "none")

SpecNumbers == Init /\ [][NextNumbers]_vars

\* Debits on accounts of either kind of tier, with and without a trial end
\* date.
SubscriptionTiers == {"trial", "premium"}
TrialEndDates == {TRIAL_DAYS, NoDate}
AccountRows ==
    {[NewUser EXCEPT !.subscription_tier = t, !.trial_end_date = e] :
        t \in SubscriptionTiers, e \in TrialEndDates}

InitAccrual ==
    /\ today = 0
    /\ users \in [Users -> AccountRows]
    /\ ledger = <<>>
    /\ invoices = <<>>
    /\ result = NoResult
    /\ sessions = [s \in Sessions |-> IdleSession]
    /\ audit = [u \in Users |-> NoAudit]

NextAccrual ==
    \/ \E d \in Days : Tick(d)
    \/ \E x \in Calls(Amounts, CommitFaults) : Debit(x[1], x[2], x[3])
    \/ \E u \in Users, c \in Grants : AddCredits(u, c, "purchase", "none")

SpecAccrual == InitAccrual /\ [][NextAccrual]_vars

\* Invoices over default and supplied periods, on accounts as the handler may
\* find them on the day after the trial: with or without a last payment date
\* and a trial end date, holding the trial grant or twice as much.
LastPaymentDates == {NoDate, TRIAL_DAYS + 1}
CreditHoldings == {TRIAL_CREDITS, 2 * TRIAL_CREDITS}
PeriodRows ==
    {[NewUser EXCEPT !.last_payment_date = l, !.trial_end_date = e,
                     !.total_credits = c] :
        l \in LastPaymentDates, e \in TrialEndDates, c \in CreditHoldings}
\* no period, both ends, and one end only
PeriodInputs ==
    {NoPeriod, [start |-> 0, end |-> TRIAL_DAYS], [start |-> TRIAL_DAYS + 1, end |-> NoDate]}

InitPeriods ==
    \* the day after the trial, which is the day of the last payment if any
    /\ today = TRIAL_DAYS + 1
    /\ users \in [Users -> PeriodRows]
    /\ ledger = <<>>
    /\ invoices = <<>>
    /\ result = NoResult
    /\ sessions = [s \in Sessions |-> IdleSession]
    /\ audit = [u \in Users |-> NoAudit]

NextPeriods ==
    \/ \E d \in Days : Tick(d)
    \/ \E u \in Users : Debit(u, 2000, "none")
    \/ \E u \in Users, p \in PeriodInputs : GenerateInvoice(u, p, 0, "none")
    \/ \E id \in 1..Len(invoices) : Pay(id, "card", "r1", 0, "none")

SpecPeriods == InitPeriods /\ [][NextPeriods]_vars

----------------------------------------------------------------------------
(* Properties.                                                             *)

Available(u) == users[u].total_credits - users[u].used_credits

\* credits recorded as consumed in the usage entries of u
UsageCredits(u) ==
    SumInts([i \in 1..Len(ledger) |->
        IF ledger[i].user_id = u /\ ledger[i].transaction_type = "usage"
        THEN ledger[i].credits_used ELSE 0])

\* credits recorded as granted in the purchase and trial entries of u
GrantedCredits(u) ==
    SumInts([i \in 1..Len(ledger) |->
        IF ledger[i].user_id = u /\ ledger[i].transaction_type \in {"purchase", "trial"}
        THEN ledger[i].credits_granted ELSE 0])

\* original principals of the invoices of u
InvoicedPrincipal(u) ==
    SumInts([i \in 1..Len(invoices) |->
        IF invoices[i].user_id = u
        THEN invoices[i].total_amount - invoices[i].late_fee ELSE 0])

\* the table t' is t with exactly one row appended
OneAppended(t, tnew) ==
    /\ Len(tnew) = Len(t) + 1
    /\ SubSeq(tnew, 1, Len(t)) = t

DeferredConserved(u) ==
    users[u].deferred_payment_balance + InvoicedPrincipal(u) = audit[u].charged

\* C1: no over-debit.  A debit called while the trial override does not apply
\* (trial inactive, or used_credits >= TRIAL_CREDITS) succeeds only if
\* total_credits - used_credits >= amount before the call, and otherwise fails
\* with "Insufficient credits", reporting the available credits and the amount.
C1_NoOverDebit ==
    [][\A u \in Users :
        LET available == users[u].total_credits - users[u].used_credits
            a == result'.amount
        IN  (/\ result'.op = "debit"
             /\ result'.user = u
             /\ ~(IsTrialActive(users[u], today) /\ users[u].used_credits < TRIAL_CREDITS))
            => /\ result'.success => available * CreditUnit >= a
               /\ available * CreditUnit < a =>
                    /\ ~result'.success
                    /\ result'.error = "Insufficient credits"
                    /\ result'.available = available
                    /\ result'.required = a
      ]_vars

\* total_credits = 1000, used_credits = 1000, trial over: a debit was refused
C1_Witness ==
    \E u \in Users :
        /\ result.op = "debit" /\ result.user = u
        /\ result.error = "Insufficient credits"
        /\ ~IsTrialActive(users[u], today)
        /\ users[u].total_credits = 1000 /\ users[u].used_credits = 1000
        /\ result.available = 0 /\ result.required > 0

\* C2: balance invariant.  used_credits is its initial value plus the credits
\* recorded as consumed in the account's usage entries, total_credits is its
\* initial value plus the credits recorded as granted in its purchase and trial
\* entries, and the credits a debit or a grant reports are those of the row.
C2_BalanceInvariant ==
    \A u \in Users :
        /\ users[u].used_credits = NewUser.used_credits + UsageCredits(u)
        /\ users[u].total_credits = NewUser.total_credits + GrantedCredits(u)
        /\ (result.op = "debit" /\ result.success /\ result.user = u)
              => result.remaining_credits = Available(u)
        /\ (result.op = "credit" /\ result.success /\ result.user = u)
              => result.total_credits = users[u].total_credits

C2_Witness ==
    \E u \in Users :
        /\ UsageCredits(u) > 0
        /\ GrantedCredits(u) > 0
        /\ result.op = "debit" /\ result.success

\* C3: no lost update.  When all concurrent debit calls have returned,
\* used_credits is its initial value plus the amounts of the debits that
\* returned success, and (no invoice generated) deferred_balance holds the
\* charge of every successful deferred-mode debit.
C3_NoLostUpdate ==
    AllIdle =>
        \A u \in Users :
            /\ users[u].used_credits * CreditUnit
                  = NewUser.used_credits * CreditUnit + audit[u].debited
            /\ invoices = <<>> => users[u].deferred_payment_balance = audit[u].charged

\* C4: no double spend.  The amounts of the successful debits called after the
\* trial never exceed the credits that were available when the trial ended
\* plus the credits granted since.
C4_NoDoubleSpend ==
    \A u \in Users :
        ~IsTrialActive(users[u], today)
            => audit[u].spent_after_trial <= audit[u].budget * CreditUnit

\* C5: deferred-money conservation.  deferred_balance plus the original
\* principals (total_amount - late_fee) of the account's invoices is the sum of
\* amount x credit_price over its successful debits made in deferred mode.
C5_DeferredConservation ==
    \A u \in Users : DeferredConserved(u)

\* an invoice carries a late fee, and new charges wait to be invoiced
C5_Witness ==
    \E u \in Users, i \in 1..Len(invoices) :
        /\ invoices[i].user_id = u
        /\ invoices[i].late_fee > 0
        /\ users[u].deferred_payment_balance > 0

\* C6: conservation under concurrency.  Once every concurrent debit and
\* generate_invoice call has returned, every deferred charge is in
\* deferred_balance or in exactly one invoice.
C6_ConcurrentConservation ==
    AllIdle => \A u \in Users : DeferredConserved(u)

\* C7: debit is all-or-nothing.  A debit that fails leaves users, ledger and
\* invoices as they were; one that succeeds appends exactly one usage entry of
\* the account and raises used_credits and total_spent by what that entry records.
C7_DebitAllOrNothing ==
    [][result'.op = "debit" =>
        IF result'.success
        THEN LET u == result'.user
                 e == ledger'[Len(ledger')]
             IN  /\ OneAppended(ledger, ledger')
                 /\ e.transaction_type = "usage" /\ e.user_id = u
                 /\ users'[u].used_credits = users[u].used_credits + e.credits_used
                 /\ users'[u].total_spent = users[u].total_spent + e.total_price
                 /\ users'[u].total_credits = users[u].total_credits
                 /\ invoices' = invoices
        ELSE UNCHANGED <<users, ledger, invoices>>
      ]_vars

\* a debit failed while persisting, on an account that had been debited before
C7_Witness ==
    /\ result.op = "debit" /\ ~result.success /\ result.error = "exception"
    /\ \E u \in Users : result.user = u /\ users[u].used_credits > 0

\* C8: a failure result of credit, generate_invoice or process_payment means
\* that users, ledger and invoices are as before the call.
C8_FailureMeansUnchanged ==
    [][(result'.op \in {"credit", "invoice", "payment"} /\ ~result'.success)
          => UNCHANGED <<users, ledger, invoices>>
      ]_vars

\* C9: invoice minimum.  generate_invoice on an existing account fails with the
\* minimum-amount error exactly when deferred_balance < MIN_DEFERRED_AMOUNT,
\* reports that balance, creates no invoice and leaves the account unchanged.
C9_InvoiceMinimum ==
    [][\A u \in Users :
        LET balance == users[u].deferred_payment_balance
        IN  (result'.op = "invoice" /\ result'.user = u)
            => /\ (result'.error = "Minimum amount not reached")
                      <=> (balance < MIN_DEFERRED_AMOUNT)
               /\ balance < MIN_DEFERRED_AMOUNT =>
                    /\ ~result'.success
                    /\ result'.current_balance = balance
                    /\ invoices' = invoices
                    /\ users' = users
      ]_vars

\* balance 5.00 with minimum 10.0: refused
C9_Witness ==
    /\ result.op = "invoice"
    /\ result.error = "Minimum amount not reached"
    /\ result.current_balance = 500000
    /\ \E u \in Users : users[u].deferred_payment_balance = 500000

\* C10: a successful generate_invoice appends exactly one invoice, pending, of
\* the account, whose total_amount is the deferred_balance before the call, and
\* leaves deferred_balance 0 and the ledger as it was.
C10_InvoiceSnapshot ==
    [][\A u \in Users :
        (result'.op = "invoice" /\ result'.success /\ result'.user = u)
        => LET inv == invoices'[Len(invoices')]
           IN  /\ OneAppended(invoices, invoices')
               /\ inv.user_id = u
               /\ inv.status = "pending"
               /\ inv.total_amount = users[u].deferred_payment_balance
               /\ result'.amount = inv.total_amount
               /\ users'[u].deferred_payment_balance = 0
               /\ ledger' = ledger
      ]_vars

\* balance 15.00: invoiced, and the balance is 0
C10_Witness ==
    \E u \in Users :
        /\ result.op = "invoice" /\ result.success /\ result.user = u
        /\ invoices[Len(invoices)].total_amount = 1500000
        /\ users[u].deferred_payment_balance = 0

\* C11: generate_invoice is atomic.  In every step, failed calls included, the
\* deferred_balance of an account is reset from a positive amount to 0 exactly
\* when one invoice of that account carrying that amount is appended, and no
\* invoice is appended otherwise.
C11_InvoiceAtomic ==
    [][\A u \in Users :
        LET balance == users[u].deferred_payment_balance
            reset == balance > 0 /\ users'[u].deferred_payment_balance = 0
            persisted == /\ OneAppended(invoices, invoices')
                         /\ invoices'[Len(invoices')].user_id = u
                         /\ invoices'[Len(invoices')].total_amount = balance
        IN  /\ reset <=> persisted
            /\ Len(invoices') # Len(invoices) =>
                  \E v \in Users :
                     /\ OneAppended(invoices, invoices')
                     /\ invoices'[Len(invoices')].user_id = v
                     /\ users'[v].deferred_payment_balance = 0
      ]_vars

\* the commit of generate_invoice failed: the balance is still to be invoiced
C11_Witness ==
    \E u \in Users :
        /\ result.op = "invoice" /\ result.user = u
        /\ ~result.success /\ result.error = "exception"
        /\ users[u].deferred_payment_balance >= MIN_DEFERRED_AMOUNT
        /\ invoices = <<>>

\* C12: terminal paid state.  No process_payment succeeds on an invoice that is
\* already paid; a paid invoice keeps its payment_date, payment_method and
\* payment_reference, and every payment ledger entry appended comes with an
\* invoice turning from unpaid to paid.
C12_PaidRejectsPayment ==
    [][/\ (result'.op = "payment" /\ result'.success)
              => invoices[result'.invoice].status # "paid"
       /\ \A i \in 1..Len(invoices) :
              invoices[i].status = "paid"
                  => /\ invoices'[i].payment_date = invoices[i].payment_date
                     /\ invoices'[i].payment_method = invoices[i].payment_method
                     /\ invoices'[i].payment_reference = invoices[i].payment_reference
       /\ (Len(ledger') > Len(ledger)
              /\ ledger'[Len(ledger')].transaction_type = "payment")
              => \E i \in 1..Len(invoices) :
                    invoices[i].status # "paid" /\ invoices'[i].status = "paid"
      ]_vars

\* C13: payment tolerance.  process_payment reports an amount mismatch only
\* when the paid amount differs from the invoice's total_amount by more than
\* 0.01, and then changes neither the invoices nor the ledger; it succeeds only
\* when the difference is at most 0.01.
C13_PaymentTolerance ==
    [][result'.op = "payment" =>
        /\ result'.error = "Amount mismatch"
              => /\ Abs(result'.paid - result'.required) > PaymentTolerance
                 /\ UNCHANGED <<invoices, ledger>>
        /\ result'.success
              => Abs(result'.paid - invoices[result'.invoice].total_amount)
                    <= PaymentTolerance
      ]_vars

\* C14: a successful process_payment leaves the invoice paid, dated today, with
\* the given payment_method and payment_reference, its amounts and the other
\* invoices untouched, and appends exactly one payment ledger entry of the
\* invoice's account whose amount is the invoice's total_amount.
C14_PaymentApplied ==
    [][(result'.op = "payment" /\ result'.success) =>
        LET id == result'.invoice
            e == ledger'[Len(ledger')]
        IN  /\ invoices'[id] = [invoices[id] EXCEPT
                                   !.status = "paid",
                                   !.payment_date = today,
                                   !.payment_method = result'.method,
                                   !.payment_reference = result'.reference]
            /\ \A i \in 1..Len(invoices) : i # id => invoices'[i] = invoices[i]
            /\ Len(invoices') = Len(invoices)
            /\ OneAppended(ledger, ledger')
            /\ e.transaction_type = "payment"
            /\ e.user_id = invoices[id].user_id
            /\ e.amount = invoices[id].total_amount
            /\ result'.amount = invoices[id].total_amount
      ]_vars

\* an overdue invoice was paid, late fee included
C14_Witness ==
    /\ result.op = "payment" /\ result.success
    /\ invoices[result.invoice].status = "paid"
    /\ invoices[result.invoice].late_fee > 0
    /\ ledger[Len(ledger)].amount = invoices[result.invoice].total_amount

\* C15: invoice lifecycle.  An invoice is created pending; its status changes
\* only pending -> overdue, pending -> paid or overdue -> paid; a paid invoice
\* keeps its status, its total_amount and its late_fee; no invoice disappears.
C15_InvoiceLifecycle ==
    [][/\ Len(invoices') >= Len(invoices)
       /\ \A i \in 1..Len(invoices') :
            IF i > Len(invoices)
            THEN invoices'[i].status = "pending"
            ELSE /\ invoices'[i].status # invoices[i].status
                      => <<invoices[i].status, invoices'[i].status>> \in
                            {<<"pending", "overdue">>, <<"pending", "paid">>,
                             <<"overdue", "paid">>}
                 /\ invoices[i].status = "paid"
                      => /\ invoices'[i].status = "paid"
                         /\ invoices'[i].total_amount = invoices[i].total_amount
                         /\ invoices'[i].late_fee = invoices[i].late_fee
      ]_vars

\* an invoice went pending -> overdue -> paid, and a sweep ran after that past
\* its due date
C15_Witness ==
    /\ result.op = "sweep" /\ result.success
    /\ \E i \in 1..Len(invoices) :
          /\ invoices[i].status = "paid"
          /\ invoices[i].is_overdue
          /\ invoices[i].payment_date < today

\* payment ledger entries of the run
PaymentEntries ==
    {i \in 1..Len(ledger) : ledger[i].transaction_type = "payment"}

\* invoices that a payment was applied to
PaidInvoices ==
    {i \in 1..Len(invoices) : invoices[i].payment_date # NoDate}

\* C16: sweep against payment.  Whatever the interleaving of a sweep with a
\* process_payment, an invoice that is paid stays paid and its total_amount
\* gets no late fee afterwards.
C16_SweepKeepsPaid ==
    [][\A i \in 1..Len(invoices) :
          invoices[i].status = "paid"
              => /\ invoices'[i].status = "paid"
                 /\ invoices'[i].total_amount = invoices[i].total_amount
      ]_vars

\* C17: concurrent payments.  Of the process_payment calls that loaded the
\* same unpaid invoice, at most one succeeds: once all calls have returned,
\* the ledger holds exactly one payment entry per paid invoice.
C17_OnePaymentPerInvoice ==
    AllIdle => Cardinality(PaymentEntries) = Cardinality(PaidInvoices)

\* C18: idempotent sweep.  A sweep that directly follows a committed sweep of
\* the same date changes no invoice and emits no reminder.
C18_SweepIdempotent ==
    [][(result'.op = "sweep" /\ result.op = "sweep" /\ result.success)
          => /\ invoices' = invoices
             /\ result'.reminders = {}
      ]_vars

\* a second sweep in a row, on a day when an invoice it found overdue is due
\* a reminder and more than 7 days late
C18_Witness ==
    /\ result.op = "sweep" /\ result.success /\ result.again
    /\ \E i \in 1..Len(invoices) :
          /\ invoices[i].status = "overdue"
          /\ invoices[i].overdue_days = today - invoices[i].payment_due_date
          /\ invoices[i].late_fee > 0

\* C19: late fee at most once, against the original principal.  An invoice is
\* created without a late fee; a step changes its total_amount or its late_fee
\* only if it had no late fee, and then late_fee becomes
\* principal x LATE_FEE_PERCENTAGE / 100 and total_amount principal + late_fee.
C19_LateFeeOnce ==
    [][\A i \in 1..Len(invoices') :
          IF i > Len(invoices)
          THEN invoices'[i].late_fee = 0
          ELSE (\/ invoices'[i].total_amount # invoices[i].total_amount
                \/ invoices'[i].late_fee # invoices[i].late_fee)
                  => /\ invoices[i].late_fee = 0
                     /\ invoices'[i].late_fee * 100
                           = invoices[i].total_amount * LATE_FEE_PERCENTAGE
                     /\ invoices'[i].total_amount
                           = invoices[i].total_amount + invoices'[i].late_fee
      ]_vars

\* an invoice carrying its late fee went through a further sweep
C19_Witness ==
    /\ result.op = "sweep" /\ result.success /\ result.again
    /\ \E i \in 1..Len(invoices) :
          /\ invoices[i].late_fee > 0
          /\ invoices[i].late_fee * 100
                = (invoices[i].total_amount - invoices[i].late_fee) * LATE_FEE_PERCENTAGE
          /\ today - invoices[i].payment_due_date > LateFeeAfterDays

\* C20: late fee once the threshold is crossed.  After a committed sweep, every
\* unpaid invoice more than 7 days past its payment_due_date carries a late
\* fee of principal x LATE_FEE_PERCENTAGE / 100, included in its total_amount.
C20_LateFeeApplied ==
    [][(result'.op = "sweep" /\ result'.success) =>
        \A i \in 1..Len(invoices') :
            (/\ invoices'[i].status # "paid"
             /\ today - invoices'[i].payment_due_date > LateFeeAfterDays)
            => /\ invoices'[i].late_fee > 0
               /\ invoices'[i].late_fee * 100
                     = (invoices'[i].total_amount - invoices'[i].late_fee)
                          * LATE_FEE_PERCENTAGE
      ]_vars

\* what C21 compares of an invoice
SweepState(rows) ==
    [i \in 1..Len(rows) |->
        <<rows[i].status, rows[i].overdue_days, rows[i].late_fee,
          rows[i].total_amount>>]

\* C21: catch-up equivalence.  From every reachable table of invoices and for
\* every day d from today on, one sweep on day d leaves the invoices (status,
\* overdue_days, late_fee, total_amount) as sweeps on every day today..d do.
C21_CatchUpEquivalence ==
    \A d \in today..MaxDay :
        SweepState(SweptRows(invoices, d)) = SweepState(SweptDaily(invoices, today, d))

\* C22: reminder cadence.  For the invoices that are not yet past due and stay
\* unpaid, with the sweeper run once on every day from today on, the run of
\* day d sends a reminder for an invoice exactly when d - payment_due_date is
\* a positive multiple of 7.
C22_ReminderCadence ==
    \A d \in today..MaxDay :
        \A i \in 1..Len(invoices) :
            (invoices[i].status = "pending" /\ invoices[i].payment_due_date >= today)
            => ( i \in RemindersOf(SweptDaily(invoices, today, d - 1), d)
                 <=> /\ d - invoices[i].payment_due_date > 0
                     /\ (d - invoices[i].payment_due_date) % ReminderEveryDays = 0 )

\* C23: sweeper failure isolation.  When the reminder of one selected invoice
\* raises during a run of the sweeper, every other invoice the run selected is
\* overdue in the table after the run.
C23_SweepFailureIsolated ==
    [][(result'.op = "sweep" /\ result'.invoice # 0)
       => \A i \in SelectedForSweep(today) \ {result'.invoice} :
             invoices'[i].status = "overdue"
      ]_vars

\* C24: credit grant.  A call of add_credits for an existing account whose
\* commit goes through reports success, appends exactly one ledger entry that
\* records the credits granted, raises total_credits by exactly that number
\* and leaves used_credits and the deferred balance as they were: with the
\* database up, a grant to an existing account never fails.
C24_CreditGrant ==
    [][(result'.op = "credit" /\ result'.user \in Users /\ ledger' # ledger)
       => LET u == result'.user
              e == ledger'[Len(ledger')]
          IN  /\ result'.success
              /\ OneAppended(ledger, ledger')
              /\ e.user_id = u /\ e.credits_granted > 0 /\ e.credits_used = 0
              /\ e.transaction_type \in {"purchase", "trial"}
              /\ users'[u].total_credits = users[u].total_credits + e.credits_granted
              /\ users'[u].used_credits = users[u].used_credits
              /\ users'[u].deferred_payment_balance = users[u].deferred_payment_balance
      ]_vars

\* the cost the pricing rules give for a request without a custom rate
ClaimedCost(service_type, quantity, duration) ==
    CASE service_type = "chat_processing" ->
            DecTimes(DecOfInt(CHAT_MESSAGE_COST), quantity)
      [] service_type = "face_processing" ->
            DecTimes(DecOfInt(FACE_PROCESSING_COST), quantity)
      [] service_type = "storage" ->
            DecTimes(DecOfInt(StorageGbMonthCost), quantity)
      [] service_type = "tasks" ->
            DecTimes(DecOfInt(TaskExecutionCost), quantity)
      [] service_type = "voice_processing" ->
            DecTimes(DecTimes(DecDivide(duration[1], SecondsPerMinute),
                              VOICE_MINUTE_COST), quantity)

\* C25: cost formulas.  Without a custom rate, the cost of chat, face, storage
\* and tasks is the rate of the pricing table times the quantity, and the cost
\* of voice is (duration / 60) x per-minute rate x quantity for every duration
\* supplied, a duration of 0 included.
C25_CostFormulas ==
    (/\ result.op \in {"cost", "quote"}
     /\ result.custom_rate = None
     /\ result.service_type \in DOMAIN Pricing
     /\ result.service_type = "voice_processing" => result.duration # None)
    => result.cost = ClaimedCost(result.service_type, result.quantity, result.duration)

\* a voice request of 100 seconds, three times: 10 x 1.666...667 x 3
C25_Witness ==
    /\ result.op = "cost" /\ result.custom_rate = None
    /\ result.service_type = "voice_processing"
    /\ result.duration = Some(100) /\ result.quantity = 3
    /\ Len(result.cost.digits) = DecimalPrecision /\ result.cost.exp = -26

\* C26: custom rate and unknown service.  Whenever a custom rate is given, a
\* rate of 0 included and whatever the service type, the cost is the custom
\* rate times the quantity; without one an unknown service type costs 0.
C26_CustomRateAndUnknown ==
    result.op \in {"cost", "quote"}
    => /\ result.custom_rate # None
          => result.cost = DecTimes(result.custom_rate[1], result.quantity)
       /\ (result.custom_rate = None /\ result.service_type \notin DOMAIN Pricing)
          => result.cost = DecZero

\* C27: invoice numbers are unique.  After any sequence of generate_invoice
\* calls, several of them within one second included, no two invoices of the
\* table have the same invoice_number.
C27_InvoiceNumbersUnique ==
    \A i, j \in 1..Len(invoices) :
        i # j => invoices[i].invoice_number # invoices[j].invoice_number

\* C28: exact debit.  A successful debit of amount a, fractional amounts
\* included, raises used_credits by exactly a, appends one usage entry with
\* credit delta -a and monetary amount a x credit_price, and returns
\* remaining_credits = total_credits - used_credits after the debit.
\* (a counts 1/CreditUnit credits.)
C28_DebitExact ==
    [][(result'.op = "debit" /\ result'.success)
       => LET u == result'.user
              a == result'.amount
              e == ledger'[Len(ledger')]
          IN  /\ users'[u].used_credits * CreditUnit
                    = users[u].used_credits * CreditUnit + a
              /\ OneAppended(ledger, ledger')
              /\ e.user_id = u /\ e.transaction_type = "usage" /\ e.amount = -a
              /\ e.total_price * CreditUnit = a * CREDIT_PRICE
              /\ result'.remaining_credits
                    = users'[u].total_credits - users'[u].used_credits
      ]_vars

\* C29: deferred accrual.  A successful debit of amount a raises the deferred
\* balance by exactly a x credit_price when the account has tier 'trial' and
\* its trial is not active (no trial_end_date, or today later than it); in
\* every other case, on trial_end_date itself included, it leaves the deferred
\* balance as it was.
C29_DeferredAccrual ==
    [][(result'.op = "debit" /\ result'.success)
       => LET u == result'.user
              a == result'.amount
              accrues == /\ users[u].subscription_tier = "trial"
                         /\ \/ users[u].trial_end_date = NoDate
                            \/ today > users[u].trial_end_date
          IN  users'[u].deferred_payment_balance * CreditUnit
                = users[u].deferred_payment_balance * CreditUnit
                  + (IF accrues THEN a * CREDIT_PRICE ELSE 0)
      ]_vars

\* a debit of 500 credits on the day after the trial that accrued 5.00
C29_Witness ==
    /\ result.op = "debit" /\ result.success /\ result.amount = 1000
    /\ today = TRIAL_DAYS + 1
    /\ \E u \in Users :
          /\ result.user = u
          /\ users[u].trial_end_date = TRIAL_DAYS
          /\ users[u].deferred_payment_balance = 500 * CREDIT_PRICE

\* C30: negative available credits.  total_credits - used_credits becomes
\* negative only by a successful debit made while the trial is active and
\* used_credits < TRIAL_CREDITS before it; any other debit of more than the
\* available credits fails; and an account none of whose debits was admitted
\* by the trial override has available credits >= 0.
C30_NegativeOnlyByOverride ==
    [][\A u \in Users :
          LET override == /\ IsTrialActive(users[u], today)
                          /\ users[u].used_credits < TRIAL_CREDITS
          IN  /\ (Available(u) >= 0 /\ Available(u)' < 0)
                    => (result'.op = "debit" /\ result'.success
                        /\ result'.user = u /\ override)
              /\ (/\ result'.op = "debit" /\ result'.user = u
                  /\ Available(u) * CreditUnit < result'.amount
                  /\ ~override)
                    => ~result'.success
              /\ ~audit'[u].override => Available(u)' >= 0
      ]_vars

\* a debit of 1000 credits admitted by the override with 500 available
C30_Witness ==
    /\ result.op = "debit" /\ result.success /\ result.amount = 2000
    /\ \E u \in Users :
          /\ result.user = u /\ audit[u].override
          /\ Available(u) = -500 /\ result.remaining_credits = -500

\* C31: due dates.  Every invoice of the table has payment_due_date =
\* billing_period_end + DEFERRED_PAYMENT_GRACE_DAYS, and a successful
\* generate_invoice leaves the account's next_payment_due_date equal to the
\* payment_due_date of the invoice it made.
C31_DueDates ==
    [][/\ \A i \in 1..Len(invoices') :
            invoices'[i].payment_due_date
               = invoices'[i].billing_period_end + DEFERRED_PAYMENT_GRACE_DAYS
       /\ (result'.op = "invoice" /\ result'.success)
            => /\ Len(invoices') = Len(invoices) + 1
               /\ users'[result'.user].next_payment_due_date
                     = invoices'[Len(invoices')].payment_due_date
      ]_vars

\* an invoice for the default period made on day 38: period end 37, due 44
C31_Witness ==
    /\ result.op = "invoice" /\ result.success /\ today = 38
    /\ invoices[Len(invoices)].billing_period_end = 37
    /\ invoices[Len(invoices)].payment_due_date = 44
    /\ users[result.user].next_payment_due_date = 44

\* C32: billing period.  An invoice generated without a period starts the day
\* after the account's last payment date if it has one, otherwise the day
\* after its trial_end_date, and ends yesterday; an invoice generated with
\* both period_start and period_end has them as given.
C32_BillingPeriod ==
    [][(result'.op = "invoice" /\ result'.success)
       => LET user == users[result'.user]
              inv == invoices'[Len(invoices')]
              given == result'.period
          IN  /\ given = NoPeriod
                   => /\ user.last_payment_date # NoDate
                           => inv.billing_period_start = user.last_payment_date + 1
                      /\ (user.last_payment_date = NoDate /\ user.trial_end_date # NoDate)
                           => inv.billing_period_start = user.trial_end_date + 1
                      /\ inv.billing_period_end = today - 1
              /\ (given.start # NoDate /\ given.end # NoDate)
                   => /\ inv.billing_period_start = given.start
                      /\ inv.billing_period_end = given.end
      ]_vars

\* C33: frame of the sweep.  A committed sweep changes exactly the invoices
\* that are pending with payment_due_date before today: each of them becomes
\* overdue with overdue_days = today - payment_due_date; every other invoice
\* (paid, already overdue, due today or later) and all accounts and ledger
\* entries stay as they were.
C33_SweepFrame ==
    [][(result'.op = "sweep" /\ result'.success)
       => /\ Len(invoices') = Len(invoices)
          /\ \A i \in 1..Len(invoices) :
                IF invoices[i].status = "pending" /\ invoices[i].payment_due_date < today
                THEN /\ invoices'[i].status = "overdue"
                     /\ invoices'[i].overdue_days = today - invoices[i].payment_due_date
                ELSE invoices'[i] = invoices[i]
          /\ users' = users
          /\ ledger' = ledger
      ]_vars

\* a sweep on day 44 that made the invoice due on day 37 overdue and left the
\* one due on day 44 pending
C33_Witness ==
    /\ result.op = "sweep" /\ result.success /\ today = 44
    /\ \E i, j \in 1..Len(invoices) :
          /\ invoices[i].payment_due_date = 37 /\ invoices[i].status = "overdue"
          /\ invoices[i].overdue_days = 7
          /\ invoices[j].payment_due_date = 44 /\ invoices[j].status = "pending"

\* C34: the ledger is append-only.  No step modifies or removes an entry; a
\* successful debit, credit or payment appends exactly one entry; a failed
\* operation, generate_invoice and the sweep append none.
C34_LedgerAppendOnly ==
    [][/\ Len(ledger') >= Len(ledger)
       /\ SubSeq(ledger', 1, Len(ledger)) = ledger
       /\ IF result'.op \in {"debit", "credit", "payment"} /\ result'.success
          THEN Len(ledger') = Len(ledger) + 1
          ELSE ledger' = ledger
      ]_vars

\* C35: the trial override is capped.  A successful debit of more than the
\* available credits, admitted during the trial because used_credits <
\* TRIAL_CREDITS, leaves used_credits <= max(total_credits, TRIAL_CREDITS).
C35_OverrideCapped ==
    [][\A u \in Users :
          (/\ result'.op = "debit" /\ result'.success /\ result'.user = u
           /\ Available(u) * CreditUnit < result'.amount)
          => users'[u].used_credits <= Max(users[u].total_credits, TRIAL_CREDITS)
      ]_vars

\* C36: deferred charges are covered by credits.  Once the trial is over, the
\* deferred charges of the account's successful debits never exceed
\* credit_price x (the credits available when the trial ended plus the
\* credits granted since).
C36_DeferredCovered ==
    \A u \in Users :
        ~IsTrialActive(users[u], today)
            => audit[u].charged <= audit[u].budget * CREDIT_PRICE

\* invoice i of the table covers the default period of the day it was made
HasDefaultPeriod(i) ==
    LET inv == invoices[i]
    IN  [start |-> inv.billing_period_start, end |-> inv.billing_period_end]
          = CalculateBillingPeriod(users[inv.user_id], inv.invoice_number[1])

\* C37: successive default periods are disjoint.  When an invoice is generated
\* for the default period, it starts after the billing_period_end of every
\* invoice of the account that was generated for its default period and has
\* been paid.
C37_DisjointPeriods ==
    [][(result'.op = "invoice" /\ result'.success /\ result'.period = NoPeriod)
       => \A i \in 1..Len(invoices) :
             (/\ invoices[i].user_id = result'.user
              /\ invoices[i].status = "paid"
              /\ HasDefaultPeriod(i))
             => invoices'[Len(invoices')].billing_period_start
                   > invoices[i].billing_period_end
      ]_vars

\* C38: every invoice generated for the default period has
\* billing_period_start <= billing_period_end.
C38_PeriodOrdered ==
    [][(result'.op = "invoice" /\ result'.success /\ result'.period = NoPeriod)
       => invoices'[Len(invoices')].billing_period_start
             <= invoices'[Len(invoices')].billing_period_end
      ]_vars

\* _calculate_deferred_balance: the account's deferred_payment_balance plus
\* the sum of total_amount over its invoices with status pending or overdue
CalculateDeferredBalance(us, invs, u) ==
    us[u].deferred_payment_balance
      + SumInts([i \in 1..Len(invs) |->
                   IF invs[i].user_id = u /\ invs[i].status \in {"pending", "overdue"}
                   THEN invs[i].total_amount
                   ELSE 0])

\* C39: the deferred balance get_user_credits reports is left unchanged by a
\* successful generate_invoice and is lowered by exactly the paid invoice's
\* total_amount by a successful process_payment.
C39_ReportedBalance ==
    [][/\ (result'.op = "invoice" /\ result'.success)
          => CalculateDeferredBalance(users', invoices', result'.user)
                = CalculateDeferredBalance(users, invoices, result'.user)
       /\ (result'.op = "payment" /\ result'.success)
          => CalculateDeferredBalance(users', invoices', result'.user)
                = CalculateDeferredBalance(users, invoices, result'.user)
                    - invoices[result'.invoice].total_amount
      ]_vars

====
